---------------------------- MODULE Spec2Model ----------------------------
(***************************************************************************)
(* The RAP-1 ferry (src/analysis/rap-1/data-collection/ferry-to-derived.py)*)
(* as a state machine: one run reads the raw cafes table, validates it,    *)
(* standardizes and enriches a working copy, assembles six tables and      *)
(* writes them to the derived store.                                       *)
(*                                                                         *)
(* Representation of values                                                *)
(*   nullable value   <<>> is null (None / NaN), <<v>> is the value v      *)
(*   text             a sequence of one-character strings                  *)
(*   price            an integer number of 1/100000 dollars                *)
(*   rating           an integer number of tenths                          *)
(*   latitude, longitude   an integer number of 1/10000 degrees            *)
(*   a ratio a/b      the pair <<a, b>>                                    *)
(***************************************************************************)
EXTENDS Integers, Sequences, FiniteSets, TLC

\* ------------------------------------------------------------------------
\* Bounds of the model
\* ------------------------------------------------------------------------

\* Rows of the raw table: one probe row followed by up to MaxRows - 1 context rows.
MaxRows == 3

\* Runs of the ferry on the same raw table.
MaxRuns == 2

\* ------------------------------------------------------------------------
\* Nullable values
\* ------------------------------------------------------------------------

None == <<>>

Some(v) == <<v>>

IsNull(x) == x = <<>>

NotNull(x) == x # <<>>

Val(x) == x[1]

\* Comparisons of a nullable number with a constant: a comparison with NaN is False.
Lt(x, c) == NotNull(x) /\ Val(x) < c

Gt(x, c) == NotNull(x) /\ Val(x) > c

\* ------------------------------------------------------------------------
\* Text
\* ------------------------------------------------------------------------

UpperAlpha ==
  <<"A","B","C","D","E","F","G","H","I","J","K","L","M",
    "N","O","P","Q","R","S","T","U","V","W","X","Y","Z">>

LowerAlpha ==
  <<"a","b","c","d","e","f","g","h","i","j","k","l","m",
    "n","o","p","q","r","s","t","u","v","w","x","y","z">>

IsUpper(c) == \E i \in 1..26 : UpperAlpha[i] = c

IsLower(c) == \E i \in 1..26 : LowerAlpha[i] = c

IsLetter(c) == IsUpper(c) \/ IsLower(c)

IsSpace(c) == c = " "

LowerChar(c) ==
  IF IsUpper(c) THEN LowerAlpha[CHOOSE i \in 1..26 : UpperAlpha[i] = c] ELSE c

UpperChar(c) ==
  IF IsLower(c) THEN UpperAlpha[CHOOSE i \in 1..26 : LowerAlpha[i] = c] ELSE c

\* str.lower()
StrLower(s) == [i \in 1..Len(s) |-> LowerChar(s[i])]

\* str.title(): a letter that follows a non-letter is upper-cased, every other lower-cased
StrTitle(s) ==
  [i \in 1..Len(s) |->
     IF i = 1 \/ ~IsLetter(s[i - 1]) THEN UpperChar(s[i]) ELSE LowerChar(s[i])]

\* str.strip(): leading and trailing whitespace removed
StrStrip(s) ==
  LET keep == {i \in 1..Len(s) : ~IsSpace(s[i])}
  IN  IF keep = {} THEN <<>>
      ELSE LET lo == CHOOSE i \in keep : \A j \in keep : i <= j
               hi == CHOOSE i \in keep : \A j \in keep : j <= i
           IN  SubSeq(s, lo, hi)

\* pat occurs in s
StrContains(s, pat) ==
  \E i \in 1..(Len(s) - Len(pat) + 1) : SubSeq(s, i, i + Len(pat) - 1) = pat


\* ------------------------------------------------------------------------
\* Configuration
\* ------------------------------------------------------------------------

\* EDMONTON_BOUNDS, in 1/10000 degrees
LAT_MIN == 534000

LAT_MAX == 537000

LNG_MIN == -1137000

LNG_MAX == -1133000

\* DOWNTOWN_REF, in 1/10000 degrees
REF_LAT == 535444

REF_LNG == -1134909

\* PRICE_RANGE, in 1/100000 dollars
PRICE_MIN == 200000

PRICE_MAX == 1000000

\* Valid ratings, in tenths
RATING_MIN == 10

RATING_MAX == 50

\* km per degree
KM_PER_DEG == 111

\* The marker of a Square One Coffee location
SOC_MARKER == <<"s","q","u","a","r","e"," ","o","n","e">>

required_fields == <<"cafe_id", "name", "neighborhood", "cafe_type">>

\* The columns of the raw table that the ferry reads
RawColumns ==
  <<"cafe_id", "name", "neighborhood", "latitude", "longitude", "cafe_type",
    "ownership", "avg_beverage_price", "google_rating", "review_count">>

\* The mutant of TableNames: the metadata table is not written
TableNamesWithoutMetadata ==
  <<"cafes_complete", "soc_locations", "competitors",
    "completeness_metrics", "quality_distribution">>

\* The tables, in the order they are written
TableNames ==
  <<"cafes_complete", "soc_locations", "competitors",
    "completeness_metrics", "quality_distribution", "metadata">>


\* ------------------------------------------------------------------------
\* 3. Data validation
\* ------------------------------------------------------------------------

Indices(t) == 1..Len(t)

\* The number of True entries of a boolean mask (Series.sum())
CountTrue(mask) == Cardinality({i \in DOMAIN mask : mask[i]})

AnyTrue(mask) == \E i \in DOMAIN mask : mask[i]

\* ds_raw[required_fields].isna().any(axis=1)
missing_required(t) ==
  [i \in Indices(t) |->
     \E k \in DOMAIN required_fields : IsNull(t[i][required_fields[k]])]

\* The mutant of duplicates: a row is compared with the row before it only
duplicates_adjacent(t) ==
  [i \in Indices(t) |-> i > 1 /\ t[i - 1].cafe_id = t[i].cafe_id]

\* ds_raw['cafe_id'].duplicated(): a row whose cafe_id occurred in an earlier row
duplicates(t) ==
  [i \in Indices(t) |-> \E j \in 1..(i - 1) : t[j].cafe_id = t[i].cafe_id]

has_coords(t) ==
  [i \in Indices(t) |-> NotNull(t[i].latitude) /\ NotNull(t[i].longitude)]

out_of_bounds(t) ==
  [i \in Indices(t) |->
     \/ Lt(t[i].latitude, LAT_MIN)
     \/ Gt(t[i].latitude, LAT_MAX)
     \/ Lt(t[i].longitude, LNG_MIN)
     \/ Gt(t[i].longitude, LNG_MAX)]

location_warnings(t) ==
  [i \in Indices(t) |-> has_coords(t)[i] /\ out_of_bounds(t)[i]]

has_price(t) == [i \in Indices(t) |-> NotNull(t[i].avg_beverage_price)]

\* The mutant of price_suspicious: a null price is judged outside PRICE_RANGE
price_suspicious_null_counted(t) ==
  [i \in Indices(t) |->
     \/ IsNull(t[i].avg_beverage_price)
     \/ Lt(t[i].avg_beverage_price, PRICE_MIN)
     \/ Gt(t[i].avg_beverage_price, PRICE_MAX)]

price_suspicious(t) ==
  [i \in Indices(t) |->
     \/ Lt(t[i].avg_beverage_price, PRICE_MIN)
     \/ Gt(t[i].avg_beverage_price, PRICE_MAX)]

price_warnings(t) ==
  [i \in Indices(t) |-> has_price(t)[i] /\ price_suspicious(t)[i]]

has_rating(t) == [i \in Indices(t) |-> NotNull(t[i].google_rating)]

invalid_rating(t) ==
  [i \in Indices(t) |->
     \/ Lt(t[i].google_rating, RATING_MIN)
     \/ Gt(t[i].google_rating, RATING_MAX)]

rating_warnings(t) ==
  [i \in Indices(t) |-> has_rating(t)[i] /\ invalid_rating(t)[i]]

\* ------------------------------------------------------------------------
\* 4. Data transformation: standardization
\* ------------------------------------------------------------------------

\* x.str.strip().str.title() on a nullable text: null stays null
StripTitle(x) == IF IsNull(x) THEN None ELSE Some(StrTitle(StrStrip(Val(x))))

\* x.str.strip().str.lower() on a nullable text: null stays null
StripLower(x) == IF IsNull(x) THEN None ELSE Some(StrLower(StrStrip(Val(x))))

\* The mutant of Standardized: the negative review counts are left as they are
StandardizedReviewsKept(t, inv) ==
  [i \in Indices(t) |->
     [t[i] EXCEPT
        !.neighborhood = StripTitle(@),
        !.cafe_type = StripLower(@),
        !.ownership = StripLower(@),
        !.google_rating = IF inv[i] THEN None ELSE @]]

\* The mutant of Standardized: the invalid ratings are left as they are
StandardizedRatingsKept(t, inv) ==
  [i \in Indices(t) |->
     [t[i] EXCEPT
        !.neighborhood = StripTitle(@),
        !.cafe_type = StripLower(@),
        !.ownership = StripLower(@),
        !.review_count = IF Lt(@, 0) THEN None ELSE @]]

\* The working copy with the categorical fields standardized, the invalid ratings
\* (the mask inv of the validation) and the negative review counts set to null
Standardized(t, inv) ==
  [i \in Indices(t) |->
     [t[i] EXCEPT
        !.neighborhood = StripTitle(@),
        !.cafe_type = StripLower(@),
        !.ownership = StripLower(@),
        !.google_rating = IF inv[i] THEN None ELSE @,
        !.review_count = IF Lt(@, 0) THEN None ELSE @]]

\* ------------------------------------------------------------------------
\* 4. Data transformation: enrichment
\* ------------------------------------------------------------------------

\* The mutant of is_soc: a case-sensitive match
is_soc_case_sensitive(name) ==
  NotNull(name) /\ StrContains(Val(name), SOC_MARKER)

\* name.str.contains('square one', case=False, na=False)
is_soc(name) ==
  NotNull(name) /\ StrContains(StrLower(Val(name)), StrLower(SOC_MARKER))

\* The mutant of Cut: the lowest edge belongs to the first bin, as
\* pd.cut(include_lowest=True)
CutIncludeLowest(x, edges, labels) ==
  IF IsNull(x) THEN None
  ELSE LET v == Val(x)
           n == Len(labels)
           hit == {i \in 1..n : /\ (edges[i] < v \/ (i = 1 /\ edges[i] = v))
                                /\ (i = n \/ v <= edges[i + 1])}
       IN  IF hit = {} THEN None ELSE Some(labels[CHOOSE i \in hit : TRUE])

\* The mutant of Cut: bins closed on the left, [e1, e2), as pd.cut(right=False)
CutLeftClosed(x, edges, labels) ==
  IF IsNull(x) THEN None
  ELSE LET v == Val(x)
           n == Len(labels)
           hit == {i \in 1..n : edges[i] <= v /\ (i = n \/ v < edges[i + 1])}
       IN  IF hit = {} THEN None ELSE Some(labels[CHOOSE i \in hit : TRUE])

\* pd.cut(x, bins=edges + [inf], labels=labels): bin i is (edges[i], edges[i+1]],
\* the last one (edges[n], inf); a value in no bin, and null, get null
Cut(x, edges, labels) ==
  IF IsNull(x) THEN None
  ELSE LET v == Val(x)
           n == Len(labels)
           hit == {i \in 1..n : edges[i] < v /\ (i = n \/ v <= edges[i + 1])}
       IN  IF hit = {} THEN None ELSE Some(labels[CHOOSE i \in hit : TRUE])

PriceEdges == <<0, 350000, 500000, 650000>>

PriceLabels == <<"budget", "moderate", "premium", "luxury">>

\* The mutant of price_category: a price outside PRICE_RANGE gets no category
price_category_plausible_only(price) ==
  IF Lt(price, PRICE_MIN) \/ Gt(price, PRICE_MAX) THEN None
  ELSE Cut(price, PriceEdges, PriceLabels)

price_category(price) == Cut(price, PriceEdges, PriceLabels)

\* The mutant of popularity_percentile: ties take their lowest rank (method='min')
popularity_percentile_min_ties(t, i) ==
  IF IsNull(t[i].review_count) THEN None
  ELSE LET v == Val(t[i].review_count)
           nn == {j \in Indices(t) : NotNull(t[j].review_count)}
           less == Cardinality({j \in nn : Val(t[j].review_count) < v})
       IN  Some(<<2 * (less + 1), 2 * Cardinality(nn)>>)

\* Series.rank(pct=True): the average rank among the non-null values over their
\* number, as the ratio <<2 * less + equal + 1, 2 * n>>
popularity_percentile(t, i) ==
  IF IsNull(t[i].review_count) THEN None
  ELSE LET v == Val(t[i].review_count)
           nn == {j \in Indices(t) : NotNull(t[j].review_count)}
           less == Cardinality({j \in nn : Val(t[j].review_count) < v})
           equal == Cardinality({j \in nn : Val(t[j].review_count) = v})
       IN  Some(<<2 * less + equal + 1, 2 * Cardinality(nn)>>)

\* google_rating * log(review_count + 1), kept as its two arguments
quality_score(r) ==
  IF IsNull(r.google_rating) \/ IsNull(r.review_count) THEN None
  ELSE Some([rating |-> Val(r.google_rating), log_of |-> Val(r.review_count) + 1])

\* The mutant of calculate_distance: no distance for coordinates outside EDMONTON_BOUNDS
calculate_distance_in_bounds(r) ==
  IF IsNull(r.latitude) \/ IsNull(r.longitude) THEN None
  ELSE IF \/ Val(r.latitude) < LAT_MIN \/ Val(r.latitude) > LAT_MAX
          \/ Val(r.longitude) < LNG_MIN \/ Val(r.longitude) > LNG_MAX THEN None
  ELSE LET lat_diff == Val(r.latitude) - REF_LAT
           lng_diff == Val(r.longitude) - REF_LNG
       IN  Some(lat_diff * lat_diff + lng_diff * lng_diff)

\* calculate_distance: sqrt(lat_diff**2 + lng_diff**2) * 111, kept as the sum of
\* squares d2 (in 1/10000 degrees squared): the distance is 111 * sqrt(d2) / 10000 km
calculate_distance(r) ==
  IF IsNull(r.latitude) \/ IsNull(r.longitude) THEN None
  ELSE LET lat_diff == Val(r.latitude) - REF_LAT
           lng_diff == Val(r.longitude) - REF_LNG
       IN  Some(lat_diff * lat_diff + lng_diff * lng_diff)

\* The bin edges of location_zone, in km
ZoneEdges == <<0, 2, 5, 10>>

ZoneLabels == <<"core", "inner", "outer", "peripheral">>

\* The edge km as a sum of squares: 111 * sqrt(d2) / 10000 > km exactly when
\* d2 > km^2 * 10^8 / 111^2, that is when d2 > KmEdge(km), its integer part
\* (computed in two steps of long division to stay within 32 bits)
KmEdge(km) ==
  LET k2 == KM_PER_DEG * KM_PER_DEG
      a == km * km * 10000
  IN  (a \div k2) * 10000 + ((a % k2) * 10000) \div k2

location_zone(dist) ==
  Cut(dist, [k \in DOMAIN ZoneEdges |-> KmEdge(ZoneEdges[k])], ZoneLabels)

TierEdges == <<-1, 0, 1, 2>>

TierLabels == <<"excellent", "good", "acceptable", "poor">>

\* The mutant of quality_tier: the bins start at 0, not at -1
quality_tier_from_zero(count) == Cut(Some(count), <<0, 1, 2, 3>>, TierLabels)

quality_tier(count) == Cut(Some(count), TierEdges, TierLabels)

quality_flags ==
  <<"flag_missing_location", "flag_no_rating", "flag_no_price",
    "flag_location_out_of_bounds", "flag_suspicious_price">>

\* The derived fields of row i of the standardized table t
EnrichedRow(t, i) ==
  LET r == t[i]
      dist == calculate_distance(r)
  IN  [cafe_id |-> r.cafe_id, name |-> r.name, neighborhood |-> r.neighborhood,
       latitude |-> r.latitude, longitude |-> r.longitude,
       cafe_type |-> r.cafe_type, ownership |-> r.ownership,
       avg_beverage_price |-> r.avg_beverage_price,
       google_rating |-> r.google_rating, review_count |-> r.review_count,
       is_soc |-> is_soc(r.name),
       price_category |-> price_category(r.avg_beverage_price),
       popularity_percentile |-> popularity_percentile(t, i),
       quality_score |-> quality_score(r),
       distance_from_downtown |-> dist,
       location_zone |-> location_zone(dist)]

Enriched(t) == [i \in Indices(t) |-> EnrichedRow(t, i)]

Bit(b) == IF b THEN 1 ELSE 0

\* The mutant of FlaggedRow: quality_flags lacks flag_suspicious_price, which
\* is set but not counted
FlaggedRowFourCounted(t, i, oob, susp) ==
  LET r == t[i]
      f1 == IsNull(r.latitude) \/ IsNull(r.longitude)
      f2 == IsNull(r.google_rating)
      f3 == IsNull(r.avg_beverage_price)
      f4 == oob[i]
      f5 == susp[i]
      n == Bit(f1) + Bit(f2) + Bit(f3) + Bit(f4)
  IN  [f \in (DOMAIN r) \cup
               {"flag_missing_location", "flag_no_rating", "flag_no_price",
                "flag_location_out_of_bounds", "flag_suspicious_price",
                "quality_flag_count", "quality_tier"} |->
         CASE f = "flag_missing_location" -> f1
           [] f = "flag_no_rating" -> f2
           [] f = "flag_no_price" -> f3
           [] f = "flag_location_out_of_bounds" -> f4
           [] f = "flag_suspicious_price" -> f5
           [] f = "quality_flag_count" -> n
           [] f = "quality_tier" -> Cut(Some(n), <<-1, 0, 1, 2>>,
                                        <<"excellent", "good", "acceptable", "poor">>)
           [] OTHER -> r[f]]

\* The five quality flags, their count and the tier of row i of the enriched
\* table t; oob and susp are the validation's out_of_bounds and price_suspicious
FlaggedRow(t, i, oob, susp) ==
  LET r == t[i]
      f1 == IsNull(r.latitude) \/ IsNull(r.longitude)
      f2 == IsNull(r.google_rating)
      f3 == IsNull(r.avg_beverage_price)
      f4 == oob[i]
      f5 == susp[i]
      n == Bit(f1) + Bit(f2) + Bit(f3) + Bit(f4) + Bit(f5)
  IN  [cafe_id |-> r.cafe_id, name |-> r.name, neighborhood |-> r.neighborhood,
       latitude |-> r.latitude, longitude |-> r.longitude,
       cafe_type |-> r.cafe_type, ownership |-> r.ownership,
       avg_beverage_price |-> r.avg_beverage_price,
       google_rating |-> r.google_rating, review_count |-> r.review_count,
       is_soc |-> r.is_soc,
       price_category |-> r.price_category,
       popularity_percentile |-> r.popularity_percentile,
       quality_score |-> r.quality_score,
       distance_from_downtown |-> r.distance_from_downtown,
       location_zone |-> r.location_zone,
       flag_missing_location |-> f1, flag_no_rating |-> f2, flag_no_price |-> f3,
       flag_location_out_of_bounds |-> f4, flag_suspicious_price |-> f5,
       quality_flag_count |-> n,
       quality_tier |-> quality_tier(n)]

Flagged(t, oob, susp) == [i \in Indices(t) |-> FlaggedRow(t, i, oob, susp)]

\* ------------------------------------------------------------------------
\* 5. Analysis tables
\* ------------------------------------------------------------------------

DropColumn(r, col) == [f \in (DOMAIN r) \ {col} |-> r[f]]

\* The mutant of cafes_complete_of: the rows of the poor tier are left out
cafes_complete_without_poor(t) ==
  SelectSeq(t, LAMBDA r : r.quality_tier # Some("poor"))

\* cafes_complete = ds.copy()
cafes_complete_of(t) == t

\* soc_locations = ds[ds['is_soc']].drop(columns=['is_soc'])
soc_locations_of(t) ==
  LET sel == SelectSeq(t, LAMBDA r : r.is_soc)
  IN  [i \in Indices(sel) |-> DropColumn(sel[i], "is_soc")]

\* competitors = ds[~ds['is_soc']].drop(columns=['is_soc'])
competitors_of(t) ==
  LET sel == SelectSeq(t, LAMBDA r : ~r.is_soc)
  IN  [i \in Indices(sel) |-> DropColumn(sel[i], "is_soc")]

\* The position of element i when the elements are sorted by their keys in
\* ascending order, equal keys in their original order
SortPosition(keys, i) ==
  1 + Cardinality({j \in DOMAIN keys : keys[j] < keys[i] \/ (j < i /\ keys[j] = keys[i])})

\* seq sorted by keys (keys[i] is the key of seq[i])
SortedBy(seq, keys) ==
  [p \in Indices(seq) |-> seq[CHOOSE i \in Indices(seq) : SortPosition(keys, i) = p]]

NotNullCount(t, col) == Cardinality({i \in Indices(t) : NotNull(t[i][col])})

\* One row per column of the raw table t, sorted by complete_rate
completeness_metrics_of(t) ==
  LET rows == [k \in DOMAIN RawColumns |->
                 LET n == NotNullCount(t, RawColumns[k])
                 IN  [field |-> RawColumns[k],
                      total_records |-> Len(t),
                      complete_count |-> n,
                      missing_count |-> Len(t) - n,
                      complete_rate |-> <<n, Len(t)>>]]
      \* every complete_rate has the denominator len(ds_raw): the order of the
      \* rates is the order of the counts
  IN  SortedBy(rows, [k \in Indices(rows) |-> rows[k].complete_count])

\* round(n / d, 0) for n >= 0, d > 0, to the even integer on a tie
RoundDiv(n, d) ==
  LET fl == n \div d
      twice == 2 * (n % d)
  IN  IF twice < d THEN fl
      ELSE IF twice > d THEN fl + 1
      ELSE IF fl % 2 = 0 THEN fl ELSE fl + 1

\* The mutant of quality_distribution_of: the tiers of the competitors only
quality_distribution_of_competitors(t) ==
  LET rows == [k \in DOMAIN TierLabels |->
                 LET c == Cardinality({i \in Indices(t) :
                                         /\ ~t[i].is_soc
                                         /\ t[i].quality_tier = Some(TierLabels[k])})
                 IN  [quality_tier |-> TierLabels[k],
                      count |-> c,
                      percentage |-> RoundDiv(c * 1000, Len(t))]]
  IN  SortedBy(rows, [k \in Indices(rows) |-> -rows[k].count])

\* ds['quality_tier'].value_counts(): one row per category, largest count first;
\* percentage = round(count / len(ds) * 100, 1), in tenths of a percent
quality_distribution_of(t) ==
  LET rows == [k \in DOMAIN TierLabels |->
                 LET c == Cardinality({i \in Indices(t) :
                                         t[i].quality_tier = Some(TierLabels[k])})
                 IN  [quality_tier |-> TierLabels[k],
                      count |-> c,
                      percentage |-> RoundDiv(c * 1000, Len(t))]]
  IN  SortedBy(rows, [k \in Indices(rows) |-> -rows[k].count])

Sum(f) ==
  LET S[k \in 0..Len(f)] == IF k = 0 THEN 0 ELSE S[k - 1] + f[k]
  IN  S[Len(f)]

\* The metadata record of a run; avg_completeness is the mean of complete_rate
\* times 100, as a ratio
metadata_of(rawt, t, metrics, errors, warnings, now) ==
  <<[ferry_date |-> now,
     input_file |-> "INPUT_DB",
     input_records |-> Len(rawt),
     output_file |-> "OUTPUT_DB",
     output_records |-> Len(t),
     validation_errors |-> errors,
     validation_warnings |-> warnings,
     avg_completeness |->
       <<100 * Sum([k \in Indices(metrics) |-> metrics[k].complete_count]),
         Len(metrics) * Len(rawt)>>]>>

\* ------------------------------------------------------------------------
\* The raw tables of the model
\* ------------------------------------------------------------------------

NameSoc ==
  <<"S","q","u","a","r","e"," ","O","n","e"," ","C","o","f","f","e","e"," ","-"," ","O","l","i","v","e","r">>

NameSocUpper ==
  <<"S","Q","U","A","R","E"," ","O","N","E">>

NameSocInner ==
  <<"t","h","e"," ","s","q","u","a","r","e"," ","o","n","e"," ","c","a","f","e">>

NameNearMiss ==
  <<"S","q","u","a","r","e","o","n","e"," ","C","o","f","f","e","e">>

NameOther ==
  <<"B","r","e","w"," ","H","o","u","s","e">>

NbhOliver ==
  <<" ","o","l","i","v","e","r"," ">>

NbhStrathcona ==
  <<"O","L","D"," ","s","t","r","a","t","h","c","o","n","a">>

TypeSpecialty ==
  <<"S","p","e","c","i","a","l","t","y","_","C","o","f","f","e","e"," ">>

OwnLocal ==
  <<" ","L","o","c","a","l">>

\* A cafe with every field present and nothing to flag
BaseRow ==
  [cafe_id |-> Some(1), name |-> Some(NameOther), neighborhood |-> Some(NbhOliver),
   latitude |-> Some(535544), longitude |-> Some(-1134909),
   cafe_type |-> Some(TypeSpecialty), ownership |-> Some(OwnLocal),
   avg_beverage_price |-> Some(450000), google_rating |-> Some(46),
   review_count |-> Some(300)]

PriceValues ==
  {None, Some(-100000), Some(0), Some(150000), Some(200000), Some(349999),
   Some(350000), Some(350001), Some(500000), Some(500001), Some(650000),
   Some(650001), Some(1000000), Some(1200000)}

RatingValues == {None, Some(5), Some(10), Some(46), Some(50), Some(60)}

ReviewValues == {None, Some(-5), Some(0), Some(10), Some(300)}

LatValues ==
  {None, Some(535444), Some(535544), Some(535744), Some(536144), Some(534000),
   Some(533999), Some(538000)}

LngValues == {None, Some(-1134909), Some(-1137001), Some(-1132000)}

NameValues ==
  {None, Some(NameSoc), Some(NameSocUpper), Some(NameSocInner), Some(NameNearMiss)}

\* The probe rows: BaseRow with one group of fields varied
ProbeRows ==
  {[BaseRow EXCEPT !.avg_beverage_price = v] : v \in PriceValues}
  \cup {[BaseRow EXCEPT !.google_rating = v] : v \in RatingValues}
  \cup {[BaseRow EXCEPT !.review_count = v] : v \in ReviewValues}
  \cup {[BaseRow EXCEPT !.google_rating = Some(5), !.review_count = Some(-5)]}
  \cup {[BaseRow EXCEPT !.latitude = la, !.longitude = lo] :
          la \in LatValues, lo \in LngValues}
  \cup {[BaseRow EXCEPT !.latitude = g[1], !.longitude = g[2],
                        !.avg_beverage_price = v, !.google_rating = w] :
          g \in {<<None, None>>, <<None, Some(-1132000)>>, <<Some(538000), None>>,
                 <<Some(538000), Some(-1134909)>>},
          v \in {None, Some(1200000)},
          w \in {None, Some(60)}}
  \cup {[BaseRow EXCEPT !.name = v] : v \in NameValues}
  \cup {[BaseRow EXCEPT !.cafe_id = None],
        [BaseRow EXCEPT !.neighborhood = None],
        [BaseRow EXCEPT !.neighborhood = Some(NbhStrathcona)],
        [BaseRow EXCEPT !.cafe_type = None],
        [BaseRow EXCEPT !.ownership = None]}

\* The context rows: a Square One location, a cafe with most fields missing, and
\* a cafe that repeats the cafe_id of the probe rows
ContextSoc ==
  [cafe_id |-> Some(2), name |-> Some(NameSocUpper), neighborhood |-> Some(NbhStrathcona),
   latitude |-> Some(535444), longitude |-> Some(-1134909),
   cafe_type |-> Some(TypeSpecialty), ownership |-> None,
   avg_beverage_price |-> Some(525000), google_rating |-> Some(48),
   review_count |-> Some(300)]

ContextSparse ==
  [cafe_id |-> Some(3), name |-> Some(NameNearMiss), neighborhood |-> Some(NbhOliver),
   latitude |-> None, longitude |-> None,
   cafe_type |-> Some(TypeSpecialty), ownership |-> Some(OwnLocal),
   avg_beverage_price |-> None, google_rating |-> None,
   review_count |-> Some(10)]

ContextRepeat ==
  [cafe_id |-> Some(1), name |-> Some(NameSoc), neighborhood |-> Some(NbhOliver),
   latitude |-> Some(536144), longitude |-> Some(-1132000),
   cafe_type |-> Some(TypeSpecialty), ownership |-> Some(OwnLocal),
   avg_beverage_price |-> Some(150000), google_rating |-> Some(5),
   review_count |-> Some(-5)]

ContextRows == {ContextSoc, ContextSparse, ContextRepeat}

ContextSeqs == UNION {[1..n -> ContextRows] : n \in 0..(MaxRows - 1)}

RawTables == {<<p>> \o c : p \in ProbeRows, c \in ContextSeqs}

\* The raw table of the earlier run that left the derived store found at the start
PriorRaw == <<ContextSoc, ContextSparse>>

\* ------------------------------------------------------------------------
\* 6. The derived store
\* ------------------------------------------------------------------------

\* No file at OUTPUT_DB
Absent == [exists |-> FALSE, tables |-> <<>>]

HasTable(st, name) == name \in DOMAIN st.tables

\* The store with table name added; each table records the run that wrote it
WithTable(st, name, rows, r) ==
  [exists |-> TRUE,
   tables |-> [n \in (DOMAIN st.tables) \cup {name} |->
                 IF n = name THEN [run |-> r, rows |-> rows] ELSE st.tables[n]]]

\* The mutant of AfterRemove: the first table is dropped instead of the file removed
AfterDropFirstTable(st) ==
  [exists |-> st.exists,
   tables |-> [n \in (DOMAIN st.tables) \ {TableNames[1]} |-> st.tables[n]]]

\* if os.path.exists(OUTPUT_DB): os.remove(OUTPUT_DB)
AfterRemove(st) == Absent

\* The mutant of AssembleTables: every row of cafes_complete carries the time of the run
AssembleTablesStamped(rawt, t, errors, warnings, now) ==
  LET metrics == completeness_metrics_of(rawt)
  IN  [cafes_complete |-> [i \in Indices(t) |->
                             [f \in (DOMAIN t[i]) \cup {"ferry_date"} |->
                                IF f = "ferry_date" THEN now ELSE t[i][f]]],
       soc_locations |-> soc_locations_of(t),
       competitors |-> competitors_of(t),
       completeness_metrics |-> metrics,
       quality_distribution |-> quality_distribution_of(t),
       metadata |-> metadata_of(rawt, t, metrics, errors, warnings, now)]

\* The mutant of AssembleTables: the completeness metrics are those of the
\* standardized table
AssembleTablesMetricsOfDs(rawt, t, errors, warnings, now) ==
  LET metrics == completeness_metrics_of(t)
  IN  [cafes_complete |-> cafes_complete_of(t),
       soc_locations |-> soc_locations_of(t),
       competitors |-> competitors_of(t),
       completeness_metrics |-> metrics,
       quality_distribution |-> quality_distribution_of(t),
       metadata |-> metadata_of(rawt, t, metrics, errors, warnings, now)]

\* The six tables of a run, from the raw table rawt and the enriched table t
AssembleTables(rawt, t, errors, warnings, now) ==
  LET metrics == completeness_metrics_of(rawt)
  IN  [cafes_complete |-> cafes_complete_of(t),
       soc_locations |-> soc_locations_of(t),
       competitors |-> competitors_of(t),
       completeness_metrics |-> metrics,
       quality_distribution |-> quality_distribution_of(t),
       metadata |-> metadata_of(rawt, t, metrics, errors, warnings, now)]

\* The validation's warning count
WarningCount(t) ==
  CountTrue(location_warnings(t)) + CountTrue(price_warnings(t))
    + CountTrue(rating_warnings(t))

\* The derived store that a completed run number r on the table rawt leaves
StoreOfRun(rawt, r) ==
  LET t == Flagged(Enriched(Standardized(rawt, invalid_rating(rawt))),
                   out_of_bounds(rawt), price_suspicious(rawt))
      tabs == AssembleTables(rawt, t, 0, WarningCount(rawt), r)
  IN  [exists |-> TRUE,
       tables |-> [n \in {TableNames[k] : k \in DOMAIN TableNames} |->
                     [run |-> r, rows |-> tabs[n]]]]

\* The derived store left by an earlier run
PriorStore == StoreOfRun(PriorRaw, 0)

\* ------------------------------------------------------------------------
\* The state of a run
\* ------------------------------------------------------------------------

VARIABLES
  raw_db,               \* the cafes table of the raw store
  derived,              \* the derived store at OUTPUT_DB
  start_derived,        \* the derived store as it was when the current run started
  run,                  \* the number of the current run, also its time (datetime.now())
  pc,                   \* the section of the script the run is at
  ds_raw,               \* the raw table as loaded
  masks,                \* the validation's boolean masks
  validation_errors,
  validation_warnings,
  ds,                   \* the working copy
  out_tables,           \* the six tables as assembled in memory
  written,              \* the number of tables written by the current run
  exit_status           \* null while the run goes on, then the process's exit status

vars ==
  <<raw_db, derived, start_derived, run, pc, ds_raw, masks, validation_errors,
    validation_warnings, ds, out_tables, written, exit_status>>

\* The variables of the script, unassigned
Unassigned ==
  /\ ds_raw = <<>>
  /\ masks = <<>>
  /\ validation_errors = 0
  /\ validation_warnings = 0
  /\ ds = <<>>
  /\ out_tables = <<>>
  /\ written = 0
  /\ exit_status = None

Init ==
  /\ raw_db \in RawTables
  /\ derived \in {Absent, PriorStore}
  /\ start_derived = derived
  /\ run = 1
  /\ pc = "import"
  /\ Unassigned

\* The mutant of Import: the existing output is removed before the validation
ImportRemoving ==
  /\ pc = "import"
  /\ ds_raw' = raw_db
  /\ derived' = AfterRemove(derived)
  /\ pc' = "validate_required"
  /\ UNCHANGED <<raw_db, start_derived, run, masks, validation_errors,
                 validation_warnings, ds, out_tables, written, exit_status>>

\* 2. Data import
Import ==
  /\ pc = "import"
  /\ ds_raw' = raw_db
  /\ pc' = "validate_required"
  /\ UNCHANGED <<raw_db, derived, start_derived, run, masks, validation_errors,
                 validation_warnings, ds, out_tables, written, exit_status>>

\* 3. Check required fields: sys.exit(1) when a required field is missing
ValidateRequired ==
  /\ pc = "validate_required"
  /\ IF AnyTrue(missing_required(ds_raw))
       THEN pc' = "abort" /\ exit_status' = Some(1)
       ELSE pc' = "validate_unique" /\ exit_status' = exit_status
  /\ UNCHANGED <<raw_db, derived, start_derived, run, ds_raw, masks,
                 validation_errors, validation_warnings, ds, out_tables, written>>

\* The mutant of ValidateUnique: repeated cafe_ids are reported and the run goes on
ValidateUniqueWarnOnly ==
  /\ pc = "validate_unique"
  /\ pc' = "validate_warnings"
  /\ UNCHANGED <<raw_db, derived, start_derived, run, ds_raw, masks,
                 validation_errors, validation_warnings, ds, out_tables, written,
                 exit_status>>

\* 3. Check uniqueness: sys.exit(1) when a cafe_id is repeated
ValidateUnique ==
  /\ pc = "validate_unique"
  /\ IF AnyTrue(duplicates(ds_raw))
       THEN pc' = "abort" /\ exit_status' = Some(1)
       ELSE pc' = "validate_warnings" /\ exit_status' = exit_status
  /\ UNCHANGED <<raw_db, derived, start_derived, run, ds_raw, masks,
                 validation_errors, validation_warnings, ds, out_tables, written>>

\* 3. Geographic, price and rating validation: warnings are counted, the run goes on
ValidateWarnings ==
  /\ pc = "validate_warnings"
  /\ masks' = [out_of_bounds |-> out_of_bounds(ds_raw),
               location_warnings |-> location_warnings(ds_raw),
               price_suspicious |-> price_suspicious(ds_raw),
               price_warnings |-> price_warnings(ds_raw),
               invalid_rating |-> invalid_rating(ds_raw),
               rating_warnings |-> rating_warnings(ds_raw)]
  /\ validation_warnings' =
       validation_warnings
         + (IF AnyTrue(location_warnings(ds_raw))
              THEN CountTrue(location_warnings(ds_raw)) ELSE 0)
         + (IF AnyTrue(price_warnings(ds_raw))
              THEN CountTrue(price_warnings(ds_raw)) ELSE 0)
         + (IF AnyTrue(rating_warnings(ds_raw))
              THEN CountTrue(rating_warnings(ds_raw)) ELSE 0)
  /\ pc' = "standardize"
  /\ UNCHANGED <<raw_db, derived, start_derived, run, ds_raw, validation_errors,
                 ds, out_tables, written, exit_status>>

\* 4. Working copy and standardization
Standardize ==
  /\ pc = "standardize"
  /\ ds' = Standardized(ds_raw, masks.invalid_rating)
  /\ pc' = "enrich"
  /\ UNCHANGED <<raw_db, derived, start_derived, run, ds_raw, masks,
                 validation_errors, validation_warnings, out_tables, written,
                 exit_status>>

\* 4. Derived fields
Enrich ==
  /\ pc = "enrich"
  /\ ds' = Enriched(ds)
  /\ pc' = "flags"
  /\ UNCHANGED <<raw_db, derived, start_derived, run, ds_raw, masks,
                 validation_errors, validation_warnings, out_tables, written,
                 exit_status>>

\* 4. Quality flags, their count and the quality tier
QualityFlags ==
  /\ pc = "flags"
  /\ ds' = Flagged(ds, masks.out_of_bounds, masks.price_suspicious)
  /\ pc' = "tables"
  /\ UNCHANGED <<raw_db, derived, start_derived, run, ds_raw, masks,
                 validation_errors, validation_warnings, out_tables, written,
                 exit_status>>

\* 5. The analysis tables, the quality metrics and the metadata record
CreateTables ==
  /\ pc = "tables"
  /\ out_tables' =
       AssembleTables(ds_raw, ds, validation_errors, validation_warnings, run)
  /\ pc' = "remove"
  /\ UNCHANGED <<raw_db, derived, start_derived, run, ds_raw, masks,
                 validation_errors, validation_warnings, ds, written, exit_status>>

\* 6. Remove the existing database if it exists
RemoveExisting ==
  /\ pc = "remove"
  /\ derived' = IF derived.exists THEN AfterRemove(derived) ELSE derived
  /\ pc' = "connect"
  /\ UNCHANGED <<raw_db, start_derived, run, ds_raw, masks, validation_errors,
                 validation_warnings, ds, out_tables, written, exit_status>>

\* 6. sqlite3.connect(OUTPUT_DB): the file is opened, and created when there is none
Connect ==
  /\ pc = "connect"
  /\ derived' = [derived EXCEPT !.exists = TRUE]
  /\ pc' = "write"
  /\ UNCHANGED <<raw_db, start_derived, run, ds_raw, masks, validation_errors,
                 validation_warnings, ds, out_tables, written, exit_status>>

\* 6. The next to_sql(name, conn_derived, index=False), committed on its own;
\* to_sql raises when the table exists (if_exists='fail')
WriteTable ==
  /\ pc = "write"
  /\ LET name == TableNames[written + 1]
     IN  IF HasTable(derived, name)
           THEN /\ pc' = "failed"
                /\ exit_status' = Some(1)
                /\ UNCHANGED <<derived, written>>
           ELSE /\ derived' = WithTable(derived, name, out_tables[name], run)
                /\ written' = written + 1
                /\ pc' = IF written + 1 = Len(TableNames) THEN "close" ELSE "write"
                /\ exit_status' = exit_status
  /\ UNCHANGED <<raw_db, start_derived, run, ds_raw, masks, validation_errors,
                 validation_warnings, ds, out_tables>>

\* 6-7. conn_derived.close() and the summary report; the script ends
Close ==
  /\ pc = "close"
  /\ pc' = "done"
  /\ exit_status' = Some(0)
  /\ UNCHANGED <<raw_db, derived, start_derived, run, ds_raw, masks,
                 validation_errors, validation_warnings, ds, out_tables, written>>

\* The process is terminated, or an I/O error is raised, in section 6, between
\* two of its statements
WriteFailure ==
  /\ pc \in {"remove", "connect", "write"}
  /\ pc' = "failed"
  /\ exit_status' = Some(1)
  /\ UNCHANGED <<raw_db, derived, start_derived, run, ds_raw, masks,
                 validation_errors, validation_warnings, ds, out_tables, written>>

\* The script is run again on the same raw table
Rerun ==
  /\ pc \in {"done", "abort", "failed"}
  /\ run < MaxRuns
  /\ run' = run + 1
  /\ start_derived' = derived
  /\ pc' = "import"
  /\ ds_raw' = <<>>
  /\ masks' = <<>>
  /\ validation_errors' = 0
  /\ validation_warnings' = 0
  /\ ds' = <<>>
  /\ out_tables' = <<>>
  /\ written' = 0
  /\ exit_status' = None
  /\ UNCHANGED <<raw_db, derived>>

Next ==
  \/ Import
  \/ ValidateRequired
  \/ ValidateUnique
  \/ ValidateWarnings
  \/ Standardize
  \/ Enrich
  \/ QualityFlags
  \/ CreateTables
  \/ RemoveExisting
  \/ Connect
  \/ WriteTable
  \/ Close
  \/ WriteFailure
  \/ Rerun

Spec == Init /\ [][Next]_vars

\* ------------------------------------------------------------------------
\* The properties of the ferry
\* ------------------------------------------------------------------------

Range(f) == {f[i] : i \in DOMAIN f}

\* Every required field of every row of t is present
RequiredPresent(t) ==
  \A i \in Indices(t) :
    /\ t[i].cafe_id # None
    /\ t[i].name # None
    /\ t[i].neighborhood # None
    /\ t[i].cafe_type # None

\* No two rows of t share a cafe_id
IdsUnique(t) ==
  \A i, j \in Indices(t) : i # j => t[i].cafe_id # t[j].cafe_id

IdsOf(t) == {t[i].cafe_id : i \in Indices(t)}

\* The tables of the current run are assembled
Assembled == out_tables # <<>>

\* Table name as the current run wrote it to the derived store
WrittenNow(name) == HasTable(derived, name) /\ derived.tables[name].run = run

\* The derived store holds the six tables, all written by run r
CompleteFrom(st, r) ==
  /\ st.exists
  /\ DOMAIN st.tables = Range(TableNames)
  /\ \A n \in DOMAIN st.tables : st.tables[n].run = r

\* C1: for a raw table whose required fields are all present and whose cafe_id
\* values are unique, the run is never aborted, and cafes_complete, as assembled
\* and as written, has one row per raw row with the same cafe_id values.
C1_NoRowDropped ==
  (RequiredPresent(raw_db) /\ IdsUnique(raw_db)) =>
    /\ pc # "abort"
    /\ Assembled =>
         /\ Len(out_tables.cafes_complete) = Len(raw_db)
         /\ IdsOf(out_tables.cafes_complete) = IdsOf(raw_db)
    /\ WrittenNow("cafes_complete") =>
         /\ Len(derived.tables.cafes_complete.rows) = Len(raw_db)
         /\ IdsOf(derived.tables.cafes_complete.rows) = IdsOf(raw_db)
    /\ pc = "done" => exit_status = Some(0) /\ WrittenNow("cafes_complete")

\* C1 witness: a run on a valid table of MaxRows rows, one of them in the poor
\* tier, with warnings raised, has completed.
C1_Witness ==
  /\ pc = "done"
  /\ RequiredPresent(raw_db) /\ IdsUnique(raw_db)
  /\ Len(raw_db) = MaxRows
  /\ validation_warnings > 0
  /\ \E i \in Indices(ds) : ds[i].quality_tier = Some("poor")

\* C2: when a required field is null in some row, or two rows share a cafe_id,
\* the run never gets past the validation, writes no table and leaves the
\* derived store as it found it, and it ends aborted with exit status 1.
C2_FatalAborts ==
  ~(RequiredPresent(raw_db) /\ IdsUnique(raw_db)) =>
    /\ pc \in {"import", "validate_required", "validate_unique", "abort"}
    /\ ds = <<>>
    /\ out_tables = <<>>
    /\ written = 0
    /\ derived = start_derived
    /\ exit_status # None => pc = "abort" /\ exit_status = Some(1)
    /\ pc = "abort" => exit_status = Some(1)

\* C2 witness: a run on a table whose required fields are present and whose
\* first and last rows share a cafe_id, with another row between them, has aborted.
C2_Witness ==
  /\ pc = "abort"
  /\ RequiredPresent(raw_db)
  /\ Len(raw_db) >= 3
  /\ raw_db[1].cafe_id = raw_db[3].cafe_id
  /\ raw_db[1].cafe_id # raw_db[2].cafe_id

\* C3: the derived store at the output path is absent (or an empty file) or
\* holds all six tables of one run; it never holds only some of the six.
C3_NoPartialStore ==
  \/ ~derived.exists
  \/ DOMAIN derived.tables = {}
  \/ \E r \in 0..MaxRuns : CompleteFrom(derived, r)

\* C4: after a failure in the write step of a run that found a derived store,
\* the store does not hold tables of an earlier run together with tables of
\* the current run.
C4_NoMixedStore ==
  (pc = "failed" /\ start_derived.exists) =>
    ~(\E n, m \in DOMAIN derived.tables :
        derived.tables[n].run = run /\ derived.tables[m].run # run)

\* C4 witness: a run that found the complete store of an earlier run has
\* failed after writing some of its tables, not all.
C4_Witness ==
  /\ pc = "failed"
  /\ \E r \in 0..MaxRuns : r < run /\ CompleteFrom(start_derived, r)
  /\ written \in 1..(Len(TableNames) - 1)
  /\ WrittenNow("cafes_complete")

\* The single row of a metadata table without its timestamp
MetadataUntimed(rows) == DropColumn(rows[1], "ferry_date")

\* C5: when a run completes on the raw table on which the run before it
\* completed (whose store it found), cafes_complete, completeness_metrics and
\* quality_distribution are the same in both stores, rows, order and values,
\* and the metadata differs in its timestamp only.
C5_Idempotent ==
  (pc = "done" /\ run > 1 /\ CompleteFrom(start_derived, run - 1)) =>
    /\ CompleteFrom(derived, run)
    /\ \A n \in {"cafes_complete", "completeness_metrics", "quality_distribution"} :
         derived.tables[n].rows = start_derived.tables[n].rows
    /\ MetadataUntimed(derived.tables.metadata.rows)
         = MetadataUntimed(start_derived.tables.metadata.rows)

\* C5 witness: the second run on a valid table of several rows has completed
\* after the first one did, and the two metadata records differ (in their time).
C5_Witness ==
  /\ pc = "done"
  /\ run = 2
  /\ CompleteFrom(start_derived, 1)
  /\ Len(raw_db) >= 2
  /\ validation_warnings > 0
  /\ derived.tables.metadata.rows # start_derived.tables.metadata.rows

\* The text s contains "square one", whatever the case of its letters
MentionsSquareOne(s) ==
  \E i \in 1..(Len(s) - 9) :
    \A k \in 1..10 : LowerChar(s[i + k - 1]) = SOC_MARKER[k]

\* C6: soc_locations and competitors share no cafe_id; each row of
\* cafes_complete is, without its is_soc column, a row of soc_locations when
\* its name contains "square one" in any case and a row of competitors
\* otherwise, and the two tables hold nothing else.
C6_Partition ==
  Assembled =>
    LET cc == out_tables.cafes_complete
        soc == out_tables.soc_locations
        comp == out_tables.competitors
    IN  /\ IdsOf(soc) \cap IdsOf(comp) = {}
        /\ Len(soc) + Len(comp) = Len(cc)
        /\ \A i \in Indices(cc) :
             IF MentionsSquareOne(Val(cc[i].name))
               THEN /\ DropColumn(cc[i], "is_soc") \in Range(soc)
                    /\ cc[i].cafe_id \notin IdsOf(comp)
               ELSE /\ DropColumn(cc[i], "is_soc") \in Range(comp)
                    /\ cc[i].cafe_id \notin IdsOf(soc)
        /\ Range(soc) \cup Range(comp) = {DropColumn(cc[i], "is_soc") : i \in Indices(cc)}

\* C6 witness: the tables are assembled, with a Square One location named in
\* upper case and a competitor whose name nearly matches.
C6_Witness ==
  /\ Assembled
  /\ \E i \in Indices(out_tables.soc_locations) :
       out_tables.soc_locations[i].name = Some(NameSocUpper)
  /\ \E i \in Indices(out_tables.competitors) :
       out_tables.competitors[i].name = Some(NameNearMiss)

C8_PriceBins ==
  Assembled =>
    \A i \in Indices(out_tables.cafes_complete) :
      LET r == out_tables.cafes_complete[i]
          p == r.avg_beverage_price
      IN  /\ p = None => r.price_category = None
          /\ p # None =>
               /\ (0 < Val(p) /\ Val(p) <= 350000) => r.price_category = Some("budget")
               /\ (350000 < Val(p) /\ Val(p) <= 500000)
                    => r.price_category = Some("moderate")
               /\ (500000 < Val(p) /\ Val(p) <= 650000)
                    => r.price_category = Some("premium")
               /\ 650000 < Val(p) => r.price_category = Some("luxury")

\* C8 witness: the assembled table holds a cafe with a price above 10.00, flagged
\* as suspicious, with the category of its bin.
C8_Witness ==
  /\ Assembled
  /\ \E i \in Indices(out_tables.cafes_complete) :
       LET r == out_tables.cafes_complete[i]
       IN  /\ r.flag_suspicious_price
           /\ r.avg_beverage_price = Some(1200000)
           /\ r.price_category = Some("luxury")

\* The numbers of rows of the raw table in the four warning categories
OutsideBoxCount ==
  Cardinality({i \in Indices(raw_db) :
    /\ raw_db[i].latitude # None /\ raw_db[i].longitude # None
    /\ \/ Val(raw_db[i].latitude) < LAT_MIN \/ Val(raw_db[i].latitude) > LAT_MAX
       \/ Val(raw_db[i].longitude) < LNG_MIN \/ Val(raw_db[i].longitude) > LNG_MAX})

ImplausiblePriceCount ==
  Cardinality({i \in Indices(raw_db) :
    /\ raw_db[i].avg_beverage_price # None
    /\ \/ Val(raw_db[i].avg_beverage_price) < PRICE_MIN
       \/ Val(raw_db[i].avg_beverage_price) > PRICE_MAX})

RatingOffScale(r) ==
  /\ r.google_rating # None
  /\ (Val(r.google_rating) < RATING_MIN \/ Val(r.google_rating) > RATING_MAX)

OffScaleRatingCount ==
  Cardinality({i \in Indices(raw_db) : RatingOffScale(raw_db[i])})

NegativeReviewCount ==
  Cardinality({i \in Indices(raw_db) :
    raw_db[i].review_count # None /\ Val(raw_db[i].review_count) < 0})

\* C9: the validation_warnings value of the metadata table includes the number
\* of offending rows of each of the four warning categories.
C9_AllWarningsCounted ==
  Assembled =>
    out_tables.metadata[1].validation_warnings =
      OutsideBoxCount + ImplausiblePriceCount + OffScaleRatingCount
        + NegativeReviewCount

\* C10: a raw row whose google_rating is present and outside [1.0, 5.0] is in
\* cafes_complete with a null google_rating and flag_no_rating set, and each
\* such row adds one to the validation_warnings of the metadata.
C10_InvalidRating ==
  Assembled =>
    /\ \A i \in Indices(raw_db) :
         RatingOffScale(raw_db[i]) =>
           \E j \in Indices(out_tables.cafes_complete) :
             LET r == out_tables.cafes_complete[j]
             IN  /\ r.cafe_id = raw_db[i].cafe_id
                 /\ r.google_rating = None
                 /\ r.flag_no_rating
    /\ out_tables.metadata[1].validation_warnings =
         OutsideBoxCount + ImplausiblePriceCount + OffScaleRatingCount

\* C10 witness: a run on a table with a rating of 6.0 has completed and its
\* metadata counts a warning.
C10_Witness ==
  /\ pc = "done"
  /\ \E i \in Indices(raw_db) : raw_db[i].google_rating = Some(60)
  /\ derived.tables.metadata.rows[1].validation_warnings >= 1

\* The tables of the derived store that carry the cafes' fields
CafeTables == {"cafes_complete", "soc_locations", "competitors"}

\* C11: in every row of cafes_complete, soc_locations and competitors, as
\* assembled and as found in the derived store, google_rating is null or
\* within [1.0, 5.0] and review_count is null or not negative.
C11_StandardizedRanges ==
  LET InRange(r) ==
        /\ r.google_rating = None
             \/ (RATING_MIN <= Val(r.google_rating) /\ Val(r.google_rating) <= RATING_MAX)
        /\ r.review_count = None \/ Val(r.review_count) >= 0
  IN  /\ Assembled =>
           \A n \in CafeTables :
             \A i \in Indices(out_tables[n]) : InRange(out_tables[n][i])
      /\ \A n \in CafeTables \cap DOMAIN derived.tables :
           \A i \in Indices(derived.tables[n].rows) : InRange(derived.tables[n].rows[i])

\* C11 witness: a run on a table with a row whose rating is 0.5 and whose
\* review count is -5 has written competitors, that row in it.
C11_Witness ==
  /\ WrittenNow("competitors")
  /\ \E i \in Indices(raw_db) :
       /\ raw_db[i].google_rating = Some(5)
       /\ raw_db[i].review_count = Some(-5)
       /\ \E j \in Indices(derived.tables.competitors.rows) :
            derived.tables.competitors.rows[j].cafe_id = raw_db[i].cafe_id

\* The names of the five quality flags
FlagNames ==
  {"flag_missing_location", "flag_no_rating", "flag_no_price",
   "flag_location_out_of_bounds", "flag_suspicious_price"}

\* C12: in every row of cafes_complete, quality_flag_count is the number of the
\* five flags that are true on the row, and lies in 0..5.
C12_FlagCount ==
  Assembled =>
    \A i \in Indices(out_tables.cafes_complete) :
      LET r == out_tables.cafes_complete[i]
      IN  /\ r.quality_flag_count = Cardinality({f \in FlagNames : r[f]})
          /\ r.quality_flag_count \in 0..5

\* C12 witness: the assembled cafes_complete has a row with four flags set,
\* flag_suspicious_price among them, and a row with none.
C12_Witness ==
  /\ Assembled
  /\ \E i \in Indices(out_tables.cafes_complete) :
       /\ out_tables.cafes_complete[i].quality_flag_count = 4
       /\ out_tables.cafes_complete[i].flag_suspicious_price
  /\ \E i \in Indices(out_tables.cafes_complete) :
       out_tables.cafes_complete[i].quality_flag_count = 0

\* Both coordinates of the raw row r are present and one is outside EDMONTON_BOUNDS
LocationWarned(r) ==
  /\ r.latitude # None /\ r.longitude # None
  /\ \/ Val(r.latitude) < LAT_MIN \/ Val(r.latitude) > LAT_MAX
     \/ Val(r.longitude) < LNG_MIN \/ Val(r.longitude) > LNG_MAX

\* The price of the raw row r is present and outside PRICE_RANGE
PriceWarned(r) ==
  /\ r.avg_beverage_price # None
  /\ \/ Val(r.avg_beverage_price) < PRICE_MIN
     \/ Val(r.avg_beverage_price) > PRICE_MAX

\* C13: on every row, flag_location_out_of_bounds is true exactly when both
\* coordinates are present and one is outside the bounding box (the location
\* warning), and flag_suspicious_price exactly when the price is present and
\* outside the plausible range (the price warning).
C13_FlagsAreWarnings ==
  Assembled =>
    \A i \in Indices(out_tables.cafes_complete) :
      LET r == out_tables.cafes_complete[i]
      IN  /\ r.flag_location_out_of_bounds <=> LocationWarned(raw_db[i])
          /\ r.flag_suspicious_price <=> PriceWarned(raw_db[i])

\* The stage of the Transform Stage's state machine that a section of the
\* script belongs to; a failure in the write stage ends the run as an abort does
StageOf(p) ==
  CASE p = "import" -> "START"
    [] p \in {"validate_required", "validate_unique", "validate_warnings"} -> "VALIDATE"
    [] p = "standardize" -> "STANDARDIZE"
    [] p \in {"enrich", "flags"} -> "ENRICH"
    [] p = "tables" -> "PARTITION_AGGREGATE"
    [] p \in {"remove", "connect", "write", "close"} -> "WRITE"
    [] p = "done" -> "DONE"
    [] p \in {"abort", "failed"} -> "ABORT"

\* The steps from one stage to the next
StageEdges ==
  {<<"START", "VALIDATE">>, <<"VALIDATE", "ABORT">>, <<"VALIDATE", "STANDARDIZE">>,
   <<"STANDARDIZE", "ENRICH">>, <<"ENRICH", "PARTITION_AGGREGATE">>,
   <<"PARTITION_AGGREGATE", "WRITE">>, <<"WRITE", "DONE">>, <<"WRITE", "ABORT">>}

\* The sections of the script in the order of its text
SectionOrder ==
  <<"import", "validate_required", "validate_unique", "validate_warnings",
    "standardize", "enrich", "flags", "tables", "remove", "connect", "write",
    "close">>

SectionNo(p) == CHOOSE k \in DOMAIN SectionOrder : SectionOrder[k] = p

\* C14: within a run every step stays in its stage, moving forward in it, or
\* moves along START -> VALIDATE -> (ABORT | STANDARDIZE -> ENRICH ->
\* PARTITION_AGGREGATE -> WRITE -> (DONE | ABORT)), so that no stage is entered
\* twice or retried; and the derived store changes only in the WRITE stage,
\* when the raw table passed both fatal checks and the six tables are assembled.
C14_StageOrder ==
  [][ /\ (run' = run /\ pc' # pc) =>
           \/ <<StageOf(pc), StageOf(pc')>> \in StageEdges
           \/ /\ StageOf(pc') = StageOf(pc)
              /\ SectionNo(pc') = SectionNo(pc) + 1
      /\ (run' = run /\ pc' = pc) => (pc = "write" /\ written' = written + 1)
      /\ derived' # derived =>
           /\ StageOf(pc) = "WRITE"
           /\ run' = run
           /\ RequiredPresent(raw_db) /\ IdsUnique(raw_db)
           /\ DOMAIN out_tables = Range(TableNames)
    ]_vars

\* C14 witness: a run that found the store of an earlier run has gone through
\* every stage and completed.
C14_Witness ==
  /\ pc = "done"
  /\ start_derived.exists
  /\ CompleteFrom(derived, run)
  /\ Len(raw_db) = MaxRows

\* The six tables of the derived store
SixTables ==
  {"cafes_complete", "soc_locations", "competitors", "completeness_metrics",
   "quality_distribution", "metadata"}

\* C15: a run that has completed has exit status 0 and leaves a derived store
\* that holds exactly the six tables, each as this run assembled it and none
\* written by an earlier run.
C15_CompleteStore ==
  pc = "done" =>
    /\ exit_status = Some(0)
    /\ RequiredPresent(raw_db) /\ IdsUnique(raw_db)
    /\ derived.exists
    /\ DOMAIN derived.tables = SixTables
    /\ \A n \in SixTables :
         /\ derived.tables[n].run = run
         /\ derived.tables[n].rows = out_tables[n]
    /\ Len(derived.tables.metadata.rows) = 1
    /\ derived.tables.metadata.rows[1].ferry_date = run

\* C15 witness: the second run on a table has completed over the complete
\* store that the first run left.
C15_Witness ==
  /\ pc = "done"
  /\ run = 2
  /\ DOMAIN start_derived.tables = SixTables
  /\ \A n \in SixTables : start_derived.tables[n].run = 1

\* C16: on every row, quality_tier is excellent for a quality_flag_count of 0,
\* good for 1, acceptable for 2 and poor for 3 or more; it is never null and
\* always one of these four labels.
C16_QualityTier ==
  Assembled =>
    \A i \in Indices(out_tables.cafes_complete) :
      LET r == out_tables.cafes_complete[i]
          n == r.quality_flag_count
      IN  /\ r.quality_tier # None
          /\ Val(r.quality_tier) \in {"excellent", "good", "acceptable", "poor"}
          /\ n = 0 => r.quality_tier = Some("excellent")
          /\ n = 1 => r.quality_tier = Some("good")
          /\ n = 2 => r.quality_tier = Some("acceptable")
          /\ n >= 3 => r.quality_tier = Some("poor")

\* C16 witness: the assembled cafes_complete has a row without a flag and a
\* row with four.
C16_Witness ==
  /\ Assembled
  /\ \E i \in Indices(out_tables.cafes_complete) :
       /\ out_tables.cafes_complete[i].quality_flag_count = 0
       /\ out_tables.cafes_complete[i].quality_tier = Some("excellent")
  /\ \E i \in Indices(out_tables.cafes_complete) :
       /\ out_tables.cafes_complete[i].quality_flag_count = 4
       /\ out_tables.cafes_complete[i].quality_tier = Some("poor")

\* The distance of a sum of squares d2 (in 1/10000 degrees squared) is more
\* than km kilometres: 111^2 * d2 > km^2 * 10^8, with the product taken in two
\* parts, 111^2 * d2 = hi * 10^4 + lo
FartherThan(d2, km) ==
  LET hi == 12321 * (d2 \div 10000) + ((12321 * (d2 % 10000)) \div 10000)
      lo == (12321 * (d2 % 10000)) % 10000
  IN  hi > km * km * 10000 \/ (hi = km * km * 10000 /\ lo > 0)

\* C17: on every row, distance_from_downtown is null exactly when latitude or
\* longitude is null, and then location_zone is null; otherwise the zone is
\* core for 0 < distance <= 2, inner for 2 < distance <= 5, outer for
\* 5 < distance <= 10 and peripheral for distance > 10, the distance being
\* that of the raw coordinates, which are kept also when out of bounds.
C17_LocationZone ==
  Assembled =>
    \A i \in Indices(out_tables.cafes_complete) :
      LET r == out_tables.cafes_complete[i]
          d == r.distance_from_downtown
      IN  /\ r.latitude = raw_db[i].latitude
          /\ r.longitude = raw_db[i].longitude
          /\ d = None <=> (r.latitude = None \/ r.longitude = None)
          /\ d = None => r.location_zone = None
          /\ d # None =>
               /\ Val(d) = (Val(r.latitude) - REF_LAT) * (Val(r.latitude) - REF_LAT)
                             + (Val(r.longitude) - REF_LNG) * (Val(r.longitude) - REF_LNG)
               /\ (FartherThan(Val(d), 0) /\ ~FartherThan(Val(d), 2))
                    => r.location_zone = Some("core")
               /\ (FartherThan(Val(d), 2) /\ ~FartherThan(Val(d), 5))
                    => r.location_zone = Some("inner")
               /\ (FartherThan(Val(d), 5) /\ ~FartherThan(Val(d), 10))
                    => r.location_zone = Some("outer")
               /\ FartherThan(Val(d), 10) => r.location_zone = Some("peripheral")

\* C17 witness: the assembled cafes_complete has a row flagged as out of
\* bounds, both coordinates present, in the peripheral zone.
C17_Witness ==
  /\ Assembled
  /\ \E i \in Indices(out_tables.cafes_complete) :
       LET r == out_tables.cafes_complete[i]
       IN  /\ r.flag_location_out_of_bounds
           /\ r.latitude # None /\ r.longitude # None
           /\ r.location_zone = Some("peripheral")

\* The raw rows whose review_count survives standardization: present and not negative
ReviewCounted(rawt) ==
  {j \in Indices(rawt) : rawt[j].review_count # None /\ Val(rawt[j].review_count) >= 0}

\* The sum of the ranks first .. first + count - 1
RECURSIVE RankSum(_, _)
RankSum(first, count) ==
  IF count = 0 THEN 0 ELSE first + RankSum(first + 1, count - 1)

\* The row of a table with a given cafe_id
RowsOfId(t, id) == {k \in Indices(t) : t[k].cafe_id = id}

\* C18: popularity_percentile of a row is null exactly when its standardized
\* review_count is null (raw null or negative); otherwise it is the average of
\* the ranks of the rows tied with it, among all rows of the table with a
\* non-null standardized review_count, over the number of such rows; it lies
\* in (0, 1], tied rows have equal percentiles, and soc_locations and
\* competitors carry the value of the whole table.
C18_PopularityPercentile ==
  Assembled =>
    LET cc == out_tables.cafes_complete
        nn == ReviewCounted(raw_db)
    IN  /\ \A i \in Indices(cc) :
             LET p == cc[i].popularity_percentile
             IN  /\ p = None <=> i \notin nn
                 /\ p = None <=> cc[i].review_count = None
                 /\ i \in nn =>
                      LET v == Val(raw_db[i].review_count)
                          less == Cardinality({j \in nn : Val(raw_db[j].review_count) < v})
                          ties == Cardinality({j \in nn : Val(raw_db[j].review_count) = v})
                      IN  /\ Val(p)[1] * ties * Cardinality(nn)
                               = Val(p)[2] * RankSum(less + 1, ties)
                          /\ Val(p)[1] > 0 /\ Val(p)[1] <= Val(p)[2]
                          /\ \A j \in nn :
                               Val(raw_db[j].review_count) = v
                                 => cc[j].popularity_percentile = p
        /\ \A name \in {"soc_locations", "competitors"} :
             \A k \in Indices(out_tables[name]) :
               \A i \in RowsOfId(cc, out_tables[name][k].cafe_id) :
                 out_tables[name][k].popularity_percentile = cc[i].popularity_percentile

\* C18 witness: the assembled table has two rows tied on review_count, one of
\* them a Square One location and the other a competitor, a third row with a
\* lower review_count, and the tied rows above the third.
C18_Witness ==
  /\ Assembled
  /\ Len(out_tables.soc_locations) > 0 /\ Len(out_tables.competitors) > 0
  /\ \E i, j, k \in Indices(out_tables.cafes_complete) :
       LET cc == out_tables.cafes_complete
       IN  /\ i # j /\ cc[i].is_soc /\ ~cc[j].is_soc
           /\ cc[i].review_count # None /\ cc[i].review_count = cc[j].review_count
           /\ cc[k].review_count # None
           /\ Val(cc[k].review_count) < Val(cc[i].review_count)
           /\ cc[i].popularity_percentile = Some(<<5, 6>>)
           /\ cc[j].popularity_percentile = Some(<<5, 6>>)
           /\ cc[k].popularity_percentile = Some(<<2, 6>>)

\* C19: completeness_metrics has exactly one row per column of the raw table;
\* complete_count is the number of raw rows with a value in that column, before
\* standardization; complete_count + missing_count = total_records = the
\* number of raw rows; complete_rate is complete_count over total_records and
\* the rows are in non-decreasing order of it.
C19_CompletenessOfRaw ==
  Assembled =>
    LET cm == out_tables.completeness_metrics
        columns == DOMAIN raw_db[1]
    IN  /\ \A col \in columns :
             Cardinality({k \in Indices(cm) : cm[k].field = col}) = 1
        /\ \A k \in Indices(cm) :
             /\ cm[k].field \in columns
             /\ cm[k].complete_count
                  = Cardinality({i \in Indices(raw_db) : raw_db[i][cm[k].field] # None})
             /\ cm[k].complete_count + cm[k].missing_count = cm[k].total_records
             /\ cm[k].total_records = Len(raw_db)
             /\ cm[k].complete_rate = <<cm[k].complete_count, cm[k].total_records>>
        /\ \A k \in 1..(Len(cm) - 1) :
             cm[k].complete_rate[1] * cm[k + 1].complete_rate[2]
               <= cm[k + 1].complete_rate[1] * cm[k].complete_rate[2]

\* C19 witness: a raw google_rating that standardization nulls is counted as
\* complete, and the metrics' first row has a lower complete_rate than the last.
C19_Witness ==
  /\ Assembled
  /\ \E i \in Indices(raw_db) :
       /\ raw_db[i].google_rating # None
       /\ out_tables.cafes_complete[i].google_rating = None
  /\ \E k \in Indices(out_tables.completeness_metrics) :
       LET row == out_tables.completeness_metrics[k]
       IN  /\ row.field = "google_rating"
           /\ row.complete_count
                > Cardinality({i \in Indices(raw_db) :
                                 out_tables.cafes_complete[i].google_rating # None})
  /\ out_tables.completeness_metrics[1].complete_count
       < out_tables.completeness_metrics[Len(out_tables.completeness_metrics)].complete_count

\* The sum of the count column of the rows 1..k of a table
RECURSIVE CountSum(_, _)
CountSum(t, k) == IF k = 0 THEN 0 ELSE t[k].count + CountSum(t, k - 1)

\* C20: quality_distribution has at most one row per quality tier, the count
\* of a tier is the number of cafes_complete rows of that tier, and the counts
\* sum to the number of rows of cafes_complete.
C20_QualityDistribution ==
  Assembled =>
    LET qd == out_tables.quality_distribution
        cc == out_tables.cafes_complete
    IN  /\ \A k, l \in Indices(qd) : qd[k].quality_tier = qd[l].quality_tier => k = l
        /\ \A k \in Indices(qd) :
             qd[k].count
               = Cardinality({i \in Indices(cc) : cc[i].quality_tier = Some(qd[k].quality_tier)})
        /\ \A i \in Indices(cc) :
             \E k \in Indices(qd) : cc[i].quality_tier = Some(qd[k].quality_tier)
        /\ CountSum(qd, Len(qd)) = Len(cc)

\* C20 witness: three rows in two tiers or more, one of them a Square One
\* location, and a tier with two rows.
C20_Witness ==
  /\ Assembled
  /\ Len(out_tables.cafes_complete) = 3
  /\ \E i \in Indices(out_tables.cafes_complete) : out_tables.cafes_complete[i].is_soc
  /\ \E k, l \in Indices(out_tables.quality_distribution) :
       /\ out_tables.quality_distribution[k].count = 2
       /\ out_tables.quality_distribution[l].count = 1

\* C21: when a run has aborted on a fatal validation error and the store it
\* found at the output path held the six tables of an earlier run, the store
\* still exists and each of its six tables is as that earlier run wrote it.
C21_PriorStoreKept ==
  (pc = "abort" /\ start_derived.exists /\ DOMAIN start_derived.tables = SixTables) =>
    /\ ~(RequiredPresent(raw_db) /\ IdsUnique(raw_db))
    /\ derived.exists
    /\ DOMAIN derived.tables = SixTables
    /\ \A n \in SixTables :
         /\ derived.tables[n].rows = start_derived.tables[n].rows
         /\ derived.tables[n].run = start_derived.tables[n].run
         /\ derived.tables[n].run < run

\* C21 witness: a run on a table with a repeated cafe_id has aborted over the
\* complete store of an earlier run, whose cafes_complete has rows.
C21_Witness ==
  /\ pc = "abort"
  /\ ~IdsUnique(raw_db)
  /\ CompleteFrom(start_derived, 0)
  /\ CompleteFrom(derived, 0)
  /\ Len(derived.tables.cafes_complete.rows) > 0

\* C22: on every row flag_no_price and flag_suspicious_price are never both
\* true, a suspicious price being a price that is present, and
\* quality_flag_count is at most 4.
C22_AtMostFourFlags ==
  Assembled =>
    \A i \in Indices(out_tables.cafes_complete) :
      LET r == out_tables.cafes_complete[i]
      IN  /\ ~(r.flag_no_price /\ r.flag_suspicious_price)
          /\ r.flag_suspicious_price => raw_db[i].avg_beverage_price # None
          /\ r.flag_no_price <=> raw_db[i].avg_beverage_price = None
          /\ r.quality_flag_count <= 4

\* C22 witness: the assembled cafes_complete has a row with every flag but
\* flag_suspicious_price set, its price being null.
C22_Witness ==
  /\ Assembled
  /\ \E i \in Indices(out_tables.cafes_complete) :
       LET r == out_tables.cafes_complete[i]
       IN  /\ r.flag_no_price /\ r.flag_missing_location /\ r.flag_no_rating
           /\ r.flag_location_out_of_bounds
           /\ ~r.flag_suspicious_price
           /\ r.quality_flag_count = 4

\* C23: every raw row is kept in cafes_complete; a non-null avg_beverage_price
\* at or below 0 has a null price_category and one above 0 has one of the four
\* price labels; a row located exactly at the downtown reference point has
\* distance 0 and a null location_zone, and a row located elsewhere, both
\* coordinates present, has one of the four zone labels.
C23_LowestEdgeIsNull ==
  Assembled =>
    LET cc == out_tables.cafes_complete
    IN  /\ Len(cc) = Len(raw_db)
        /\ \A i \in Indices(cc) :
             LET p == raw_db[i].avg_beverage_price
                 lat == raw_db[i].latitude
                 lng == raw_db[i].longitude
             IN  /\ cc[i].cafe_id = raw_db[i].cafe_id
                 /\ cc[i].avg_beverage_price = p
                 /\ (p # None /\ Val(p) <= 0) => cc[i].price_category = None
                 /\ (p # None /\ Val(p) > 0) =>
                      /\ cc[i].price_category # None
                      /\ Val(cc[i].price_category)
                           \in {"budget", "moderate", "premium", "luxury"}
                 /\ (lat = Some(REF_LAT) /\ lng = Some(REF_LNG)) =>
                      /\ cc[i].distance_from_downtown = Some(0)
                      /\ cc[i].location_zone = None
                 /\ (lat # None /\ lng # None /\ (lat # Some(REF_LAT) \/ lng # Some(REF_LNG))) =>
                      /\ cc[i].distance_from_downtown # None
                      /\ Val(cc[i].distance_from_downtown) > 0
                      /\ cc[i].location_zone # None
                      /\ Val(cc[i].location_zone)
                           \in {"core", "inner", "outer", "peripheral"}

\* C23 witness: the assembled cafes_complete keeps a row with a price of 0 and
\* no price_category, and a row at the reference point with no location_zone.
C23_Witness ==
  /\ Assembled
  /\ \E i \in Indices(out_tables.cafes_complete) :
       /\ out_tables.cafes_complete[i].avg_beverage_price = Some(0)
       /\ out_tables.cafes_complete[i].price_category = None
  /\ \E i \in Indices(out_tables.cafes_complete) :
       /\ out_tables.cafes_complete[i].latitude = Some(REF_LAT)
       /\ out_tables.cafes_complete[i].longitude = Some(REF_LNG)
       /\ out_tables.cafes_complete[i].distance_from_downtown = Some(0)
       /\ out_tables.cafes_complete[i].location_zone = None

=============================================================================
